---- MODULE Spec2Model ----
(***************************************************************************)
(* A model of the label-remapping and annotation-conversion logic of the   *)
(* ExDark detection wrappers:                                               *)
(*   - COCOWrapperTransformers: the category map built in the constructor   *)
(*     and the detection filter that uses it;                               *)
(*   - DetectionTransformer.pascal_to_coco: the Pascal-VOC -> COCO          *)
(*     annotation converter;                                                *)
(*   - ExDarkDataModule: the dataset attributes set by setup /              *)
(*     setup_predict_data and read by the dataloader methods.               *)
(* Python dicts are functions, Python lists and tensors are sequences       *)
(* (1-based here, 0-based in the source), a raised exception is a value     *)
(* naming the exception type.                                               *)
(***************************************************************************)
EXTENDS Integers, Sequences, FiniteSets, TLC

VARIABLES
    exdark_categories,  \* the canonical category list of the remapper
    id2label,           \* model.config.id2label: an ordered dict, as a sequence of (id, name) items
    wstate,             \* "new" before __init__, then "ready" or the exception __init__ raised
    categories_map,     \* self.categories_map: dict int -> int
    detections,         \* argument of the last _filter_detections call
    filtered,           \* its return value
    refiltered,         \* return value of _filter_detections applied to `filtered`
    calls,              \* number of _filter_detections calls made so far
    last_call,          \* the method of the wrapper called last
    built_map,          \* what the mapping builder returned to __init__
    passed,             \* the records of the last call as they were before the call
    pascal_annotations, \* argument of pascal_to_coco
    coco_result,        \* its outcome: the returned list or the raised exception
    pstate,             \* "idle" before the pascal_to_coco call, "done" after it
    dm,                 \* ExDarkDataModule: batch_size and the dataset attributes that exist
    dm_history,         \* the setup calls made on it so far
    dm_result,          \* the last call on it and its outcome
    module,             \* the LightningModule validated: "DetectionTransformer" or "Retina"
    metric,             \* self.metric: the (prediction, ground truth) pairs accumulated
    val_mAP,            \* the value logged as val_mAP by the last epoch end
    last_update,        \* the arguments of the last metric.update call
    update_calls,       \* metric.update calls of the running validation epoch
    steps,              \* validation_step calls of the running validation epoch
    epoch,              \* validation epochs ended
    seen,               \* the images of the running epoch's batches, in order
    logged_for          \* the images of the batches of the epoch val_mAP was logged for

vars == <<exdark_categories, id2label, wstate, categories_map, detections, filtered,
          refiltered, calls, last_call, built_map, passed, pascal_annotations, coco_result, pstate, dm, dm_history, dm_result,
          module, metric, val_mAP, last_update, update_calls, steps, epoch, seen,
          logged_for>>

wrapperVars == <<exdark_categories, id2label, wstate, categories_map, detections,
                 filtered, refiltered, calls, last_call, built_map, passed>>
pascalVars == <<pascal_annotations, coco_result, pstate>>
dmVars == <<dm, dm_history, dm_result>>
valVars == <<module, metric, val_mAP, last_update, update_calls, steps, epoch, seen,
             logged_for>>

----------------------------------------------------------------------------
(* Bounds of the model *)

MaxCats == 2        \* longest canonical category list
MaxVocab == 2       \* most items of a generated id2label
MaxNativeId == 2    \* native ids of a generated id2label are in 0..MaxNativeId
MaxImages == 2      \* most images (records) of a detection batch
MaxDets == 2        \* most detections of a batch, all images together
MaxLabel == 2       \* raw detection labels are in 0..MaxLabel
MaxRecords == 2     \* most records of a Pascal batch
MaxBoxes == 2       \* most boxes of a Pascal batch, all records together
MaxValImages == 2   \* most images of a validation epoch, all batches together
MaxEpochs == 2      \* validation epochs run

None == "None"

Names == {"cat", "dog", "car"}

SeqsUpTo(S, n) == UNION {[1..k -> S] : k \in 0..n}

IsInjective(f) == \A a, b \in DOMAIN f : f[a] = f[b] => a = b

Min(a, b) == IF a <= b THEN a ELSE b

----------------------------------------------------------------------------
(* Python list and dict primitives *)

\* x in list
Contains(list, x) == \E p \in 1..Len(list) : list[p] = x

\* list.index(x) for x in list: the 0-based position of the first occurrence
index(list, x) ==
    (CHOOSE p \in 1..Len(list) :
        list[p] = x /\ \A q \in 1..(p - 1) : list[q] # x) - 1

\* d[k] = v
DictSet(d, k, v) == [x \in (DOMAIN d) \cup {k} |-> IF x = k THEN v ELSE d[x]]

EmptyDict == [x \in {} |-> 0]

\* list(d.values()) of an ordered dict
values(d) == [p \in 1..Len(d) |-> d[p].name]

\* d.keys() of an ordered dict
keys(d) == {d[p].id : p \in 1..Len(d)}

\* d[k] of an ordered dict, for k in d.keys()
lookup(d, k) == d[CHOOSE p \in 1..Len(d) : d[p].id = k].name

----------------------------------------------------------------------------
(* COCOWrapperTransformers._get_transformers_coco_to_exdark_mapping *)

\* The dict comprehension after its first n iterations: the dict built so far,
\* or the ValueError list.index raises for a name that is not in the list.
RECURSIVE MappingUpTo(_, _, _)
MappingUpTo(cats, coco_categories, n) ==
    IF n = 0 THEN [raised |-> None, map |-> EmptyDict]
    ELSE LET prev == MappingUpTo(cats, coco_categories, n - 1)
             category_name == cats[n]
             idx == n - 1
         IN  IF prev.raised # None THEN prev
             ELSE IF ~Contains(coco_categories, category_name)
                  THEN [raised |-> "ValueError", map |-> EmptyDict]
                  ELSE [raised |-> None,
                        map |-> DictSet(prev.map,
                                        index(coco_categories, category_name),
                                        idx + 1)]

\* Mutant: a name that is not in the list is skipped instead of raising
RECURSIVE SkippingUpTo(_, _, _)
SkippingUpTo(cats, coco_categories, n) ==
    IF n = 0 THEN [raised |-> None, map |-> EmptyDict]
    ELSE LET prev == SkippingUpTo(cats, coco_categories, n - 1)
         IN  IF ~Contains(coco_categories, cats[n]) THEN prev
             ELSE [raised |-> None,
                   map |-> DictSet(prev.map, index(coco_categories, cats[n]), n)]

mapping_skipping_absent(cats, vocab) ==
    SkippingUpTo(cats, values(vocab), Len(cats))

\* Mutant: the value is idx instead of idx + 1
mapping_zero_based(cats, vocab) ==
    LET r == MappingUpTo(cats, values(vocab), Len(cats))
    IN  [raised |-> r.raised, map |-> [k \in DOMAIN r.map |-> r.map[k] - 1]]

get_transformers_coco_to_exdark_mapping(cats, vocab) ==
    MappingUpTo(cats, values(vocab), Len(cats))

----------------------------------------------------------------------------
(* COCOWrapperTransformers._filter_detections *)

\* tensor.tolist() of a box row: the same coordinates as a list
tolist(box) == [c \in 1..Len(box) |-> box[c]]

\* zip(boxes, labels, scores) stops at the shortest of the three
ZipLen(d) == Min(Len(d.boxes), Min(Len(d.labels), Len(d.scores)))

EmptyRecord == [boxes |-> <<>>, labels |-> <<>>, scores |-> <<>>]

\* filtered_detections_dict after the first k entries of one image's record
RECURSIVE FilterUpTo(_, _, _)
FilterUpTo(detections_dict, map, k) ==
    IF k = 0 THEN EmptyRecord
    ELSE LET acc == FilterUpTo(detections_dict, map, k - 1)
             label == detections_dict.labels[k]
         IN  IF label \notin DOMAIN map THEN acc
             ELSE [boxes |-> Append(acc.boxes, tolist(detections_dict.boxes[k])),
                   labels |-> Append(acc.labels, map[label]),
                   scores |-> Append(acc.scores, detections_dict.scores[k])]

\* Mutant: the surviving label is appended without being rewritten
RECURSIVE KeepNativeUpTo(_, _, _)
KeepNativeUpTo(detections_dict, map, k) ==
    IF k = 0 THEN EmptyRecord
    ELSE LET acc == KeepNativeUpTo(detections_dict, map, k - 1)
             label == detections_dict.labels[k]
         IN  IF label \notin DOMAIN map THEN acc
             ELSE [boxes |-> Append(acc.boxes, tolist(detections_dict.boxes[k])),
                   labels |-> Append(acc.labels, label),
                   scores |-> Append(acc.scores, detections_dict.scores[k])]

filter_keeping_native_label(dets, map) ==
    [i \in 1..Len(dets) |-> KeepNativeUpTo(dets[i], map, ZipLen(dets[i]))]

\* Mutant: the box is appended before the label is looked up
RECURSIVE KeepBoxUpTo(_, _, _)
KeepBoxUpTo(detections_dict, map, k) ==
    IF k = 0 THEN EmptyRecord
    ELSE LET acc == KeepBoxUpTo(detections_dict, map, k - 1)
             label == detections_dict.labels[k]
             boxes == Append(acc.boxes, tolist(detections_dict.boxes[k]))
         IN  IF label \notin DOMAIN map
             THEN [boxes |-> boxes, labels |-> acc.labels, scores |-> acc.scores]
             ELSE [boxes |-> boxes,
                   labels |-> Append(acc.labels, map[label]),
                   scores |-> Append(acc.scores, detections_dict.scores[k])]

filter_keeping_unmapped_boxes(dets, map) ==
    [i \in 1..Len(dets) |-> KeepBoxUpTo(dets[i], map, ZipLen(dets[i]))]

\* Mutant: an image without surviving detections is left out of the result
filter_dropping_empty_images(dets, map) ==
    SelectSeq([i \in 1..Len(dets) |-> FilterUpTo(dets[i], map, ZipLen(dets[i]))],
              LAMBDA r : Len(r.labels) > 0)

filter_detections(dets, map) ==
    [i \in 1..Len(dets) |-> FilterUpTo(dets[i], map, ZipLen(dets[i]))]

\* Mutant: the label is taken out of the map (categories_map.pop(label)) and the
\* entries are taken off the argument's lists
filter_consuming(dets, map) ==
    [categories_map |->
        [k \in {x \in DOMAIN map :
                   \A i \in 1..Len(dets) : \A j \in 1..ZipLen(dets[i]) :
                       dets[i].labels[j] # x} |-> map[k]],
     detections |-> [i \in 1..Len(dets) |-> EmptyRecord]]

\* What a _filter_detections call leaves in self.categories_map and in its argument:
\* the map is only tested and read (label not in map, map[label]), the argument's
\* lists are only iterated, and the results go to new lists
filter_detections_effect(dets, map) ==
    [categories_map |-> map, detections |-> dets]

\* forward(images): the post-processed outputs of the model, filtered
forward(outputs, map) == filter_detections(outputs, map)

\* predict_step(batch, batch_idx): self(batch[0])
predict_step(outputs, map) == forward(outputs, map)

----------------------------------------------------------------------------
(* DetectionTransformer.pascal_to_coco *)

\* An outcome: the returned value, or the exception raised. `names` is the set of
\* image ids the exception's message mentions.
NoException == [type |-> None, names |-> {}]
Returned(v) == [raised |-> NoException, value |-> v]
Raised(type, ids) == [raised |-> [type |-> type, names |-> ids], value |-> <<>>]

\* tensor[idx] of a 1-d tensor raises IndexError when idx is not below its length;
\* the message gives the index and the size, no image id
InRange(tensor, n) == n <= Len(tensor)

\* int(t.item()) and float(t.item()) of an integer-valued element: the same number
to_int(x) == x
to_float(x) == x

\* coco_ann["annotations"] after the first n iterations of the inner loop,
\* or the IndexError of labels[idx], iscrowd[idx] or areas[idx]
RECURSIVE AnnotationsUpTo(_, _)
AnnotationsUpTo(ann, n) ==
    IF n = 0 THEN Returned(<<>>)
    ELSE LET prev == AnnotationsUpTo(ann, n - 1)
             box == tolist(ann.boxes[n])
             x1 == box[1]
             y1 == box[2]
             x2 == box[3]
             y2 == box[4]
             width == x2 - x1
             height == y2 - y1
         IN  IF prev.raised # NoException THEN prev
             ELSE IF ~InRange(ann.labels, n) \/ ~InRange(ann.iscrowd, n)
                        \/ ~InRange(ann.area, n)
                  THEN Raised("IndexError", {})
                  ELSE Returned(Append(prev.value,
                          [image_id |-> to_int(ann.image_id),
                           category_id |-> to_float(ann.labels[n]),
                           bbox |-> <<x1, y1, width, height>>,
                           iscrowd |-> to_int(ann.iscrowd[n]),
                           area |-> to_float(ann.area[n])]))

\* coco_annotations after the first m records, or the exception that ended the call
RECURSIVE ConvertUpTo(_, _)
ConvertUpTo(pascal, m) ==
    IF m = 0 THEN Returned(<<>>)
    ELSE LET prev == ConvertUpTo(pascal, m - 1)
             ann == pascal[m]
             annotations == AnnotationsUpTo(ann, Len(ann.boxes))
         IN  IF prev.raised # NoException THEN prev
             ELSE IF annotations.raised # NoException THEN annotations
             ELSE Returned(Append(prev.value,
                     [image_id |-> to_int(ann.image_id),
                      annotations |-> annotations.value]))

\* Mutant: the area is recomputed from the converted box
pascal_to_coco_recomputing_area(pascal) ==
    LET r == ConvertUpTo(pascal, Len(pascal))
    IN  [raised |-> r.raised,
         value |-> [i \in 1..Len(r.value) |->
            [image_id |-> r.value[i].image_id,
             annotations |-> [j \in 1..Len(r.value[i].annotations) |->
                [r.value[i].annotations[j] EXCEPT
                    !.area = r.value[i].annotations[j].bbox[3]
                                * r.value[i].annotations[j].bbox[4]]]]]]

\* The record cut to the first n entries of every list
Truncated(ann, n) ==
    [image_id |-> ann.image_id,
     boxes |-> SubSeq(ann.boxes, 1, Min(n, Len(ann.boxes))),
     labels |-> SubSeq(ann.labels, 1, Min(n, Len(ann.labels))),
     area |-> SubSeq(ann.area, 1, Min(n, Len(ann.area))),
     iscrowd |-> SubSeq(ann.iscrowd, 1, Min(n, Len(ann.iscrowd)))]

\* Mutant: the loop runs over the shortest of the four lists
pascal_to_coco_shortest_list(pascal) ==
    LET cut == [i \in 1..Len(pascal) |->
                  Truncated(pascal[i],
                      Min(Min(Len(pascal[i].boxes), Len(pascal[i].labels)),
                          Min(Len(pascal[i].area), Len(pascal[i].iscrowd))))]
    IN  ConvertUpTo(cut, Len(cut))

\* Mutant: the loop runs over range(len(labels)), so that boxes[idx] is what can fail
pascal_to_coco_over_labels(pascal) ==
    IF \E i \in 1..Len(pascal) :
          \/ Len(pascal[i].labels) > Len(pascal[i].boxes)
          \/ Len(pascal[i].labels) > Len(pascal[i].area)
          \/ Len(pascal[i].labels) > Len(pascal[i].iscrowd)
    THEN Raised("IndexError", {})
    ELSE LET cut == [i \in 1..Len(pascal) |->
                       Truncated(pascal[i], Len(pascal[i].labels))]
         IN  ConvertUpTo(cut, Len(cut))

pascal_to_coco(pascal) == ConvertUpTo(pascal, Len(pascal))

----------------------------------------------------------------------------
(* Inputs of the wrapper *)

NativeIds == 0..MaxNativeId

\* Every id2label of at most MaxVocab items: distinct native ids in any order
\* (not necessarily 0..n-1), names possibly repeated.
Vocabularies ==
    UNION {{[p \in 1..k |-> [id |-> ids[p], name |-> names[p]]] :
               ids \in {f \in [1..k -> NativeIds] : IsInjective(f)},
               names \in [1..k -> Names]} : k \in 0..MaxVocab}

\* Canonical lists: non-empty, without repeated names (as the literal of the source)
CanonicalLists == {c \in SeqsUpTo(Names, MaxCats) : Len(c) >= 1 /\ IsInjective(c)}

\* The pretrained vocabularies the filter is exercised with
FilterVocabularies ==
    { <<[id |-> 0, name |-> "dog"], [id |-> 1, name |-> "car"], [id |-> 2, name |-> "cat"]>>,
      <<[id |-> 0, name |-> "car"], [id |-> 1, name |-> "cat"], [id |-> 2, name |-> "dog"]>>,
      <<[id |-> 0, name |-> "cat"], [id |-> 2, name |-> "dog"]>>,
      <<[id |-> 0, name |-> "dog"]>> }

FilterCanonicalLists == { <<"cat", "dog">>, <<"dog">> }

\* A raw detection entry: a box (x1, y1, x2, y2), a native label, a score (in percent)
RawPayloads == { [box |-> <<10, 10, 50, 40>>, score |-> 90],
                 [box |-> <<0, 5, 20, 30>>, score |-> 70] }

RawEntries == {[box |-> p.box, label |-> l, score |-> p.score] :
                  p \in RawPayloads, l \in 0..MaxLabel}

RECURSIVE Sum(_)
Sum(s) == IF Len(s) = 0 THEN 0 ELSE s[1] + Sum(Tail(s))

\* Number of detections per image, for every batch of at most MaxImages images
\* and at most MaxDets detections
BatchShapes ==
    UNION {{l \in [1..k -> 0..MaxDets] : Sum(l) <= MaxDets} : k \in 0..MaxImages}

\* One image's record of parallel lists, from its entries
RawRecord(entries) ==
    [boxes |-> [j \in 1..Len(entries) |-> entries[j].box],
     labels |-> [j \in 1..Len(entries) |-> entries[j].label],
     scores |-> [j \in 1..Len(entries) |-> entries[j].score]]

\* The batch whose images have lens[i] detections, read off `flat` in order
RawBatch(lens, flat) ==
    [i \in 1..Len(lens) |->
        RawRecord([j \in 1..lens[i] |-> flat[Sum(SubSeq(lens, 1, i - 1)) + j]])]

----------------------------------------------------------------------------
(* COCOWrapperTransformers: actions *)

\* __init__: builds categories_map, or raises what the mapping builder raises
WrapperInit ==
    /\ wstate = "new"
    /\ LET r == get_transformers_coco_to_exdark_mapping(exdark_categories, id2label)
       IN  /\ wstate' = IF r.raised = None THEN "ready" ELSE r.raised
           /\ categories_map' = r.map
           /\ built_map' = r.map
    /\ UNCHANGED <<exdark_categories, id2label, detections, filtered, refiltered, calls,
                   last_call, passed>>
    /\ UNCHANGED <<pascalVars, dmVars, valVars>>

\* A call on a batch of raw detection records: what it returns and what it leaves
Call(method, batch, result) ==
    LET post == filter_detections_effect(batch, categories_map)
    IN  /\ passed' = batch
        /\ detections' = post.detections
        /\ categories_map' = post.categories_map
        /\ filtered' = result
        /\ refiltered' = <<>>
        /\ calls' = 1
        /\ last_call' = method
        /\ UNCHANGED <<exdark_categories, id2label, wstate, built_map>>
        /\ UNCHANGED <<pascalVars, dmVars, valVars>>

\* _filter_detections(detections) on a batch of raw detection records
FilterDetections ==
    /\ wstate = "ready"
    /\ calls = 0
    /\ \E lens \in BatchShapes :
         \E flat \in [1..Sum(lens) -> RawEntries] :
            Call("_filter_detections", RawBatch(lens, flat),
                 filter_detections(RawBatch(lens, flat), categories_map))

\* forward(images): the model's post-processed outputs, one record per image
Forward ==
    /\ wstate = "ready"
    /\ calls = 0
    /\ \E lens \in BatchShapes :
         \E flat \in [1..Sum(lens) -> RawEntries] :
            Call("forward", RawBatch(lens, flat),
                 forward(RawBatch(lens, flat), categories_map))

\* predict_step(batch, batch_idx)
PredictStep ==
    /\ wstate = "ready"
    /\ calls = 0
    /\ \E lens \in BatchShapes :
         \E flat \in [1..Sum(lens) -> RawEntries] :
            Call("predict_step", RawBatch(lens, flat),
                 predict_step(RawBatch(lens, flat), categories_map))

\* _filter_detections applied to the records the last call returned
FilterAgain ==
    /\ wstate = "ready"
    /\ calls = 1
    /\ LET post == filter_detections_effect(filtered, categories_map)
       IN  /\ filtered' = post.detections
           /\ categories_map' = post.categories_map
    /\ refiltered' = filter_detections(filtered, categories_map)
    /\ calls' = 2
    /\ last_call' = "_filter_detections"
    /\ UNCHANGED <<exdark_categories, id2label, wstate, detections, built_map, passed>>
    /\ UNCHANGED <<pascalVars, dmVars, valVars>>

\* The caller drops the records of the calls made; the wrapper is called again
NextBatch ==
    /\ wstate = "ready"
    /\ calls >= 1
    /\ detections' = <<>>
    /\ filtered' = <<>>
    /\ refiltered' = <<>>
    /\ passed' = <<>>
    /\ calls' = 0
    /\ UNCHANGED <<exdark_categories, id2label, wstate, categories_map, built_map,
                   last_call>>
    /\ UNCHANGED <<pascalVars, dmVars, valVars>>

WrapperIdle ==
    /\ wstate = "new"
    /\ categories_map = EmptyDict
    /\ detections = <<>>
    /\ filtered = <<>>
    /\ refiltered = <<>>
    /\ calls = 0
    /\ last_call = None
    /\ built_map = EmptyDict
    /\ passed = <<>>

WrapperAbsent ==
    /\ exdark_categories = <<>>
    /\ id2label = <<>>
    /\ WrapperIdle

PascalAbsent ==
    /\ pascal_annotations = <<>>
    /\ coco_result = Returned(<<>>)
    /\ pstate = "idle"

DataModuleAbsent ==
    /\ dm = None
    /\ dm_history = {}
    /\ dm_result = None

ValidationAbsent ==
    /\ module = None
    /\ metric = <<>>
    /\ val_mAP = [of |-> <<>>]
    /\ last_update = [preds |-> <<>>, target |-> <<>>]
    /\ update_calls = 0
    /\ steps = 0
    /\ epoch = 0
    /\ seen = <<>>
    /\ logged_for = <<>>

\* The remapper on every canonical list and every vocabulary within the bounds
InitMap ==
    /\ exdark_categories \in CanonicalLists
    /\ id2label \in Vocabularies
    /\ WrapperIdle
    /\ PascalAbsent
    /\ DataModuleAbsent
    /\ ValidationAbsent

NextMap == WrapperInit

SpecMap == InitMap /\ [][NextMap]_vars

\* The wrapper's life: construction, then the filter
InitFilter ==
    /\ exdark_categories \in FilterCanonicalLists
    /\ id2label \in FilterVocabularies
    /\ WrapperIdle
    /\ PascalAbsent
    /\ DataModuleAbsent
    /\ ValidationAbsent

NextFilter ==
    \/ WrapperInit
    \/ FilterDetections
    \/ Forward
    \/ PredictStep
    \/ FilterAgain
    \/ NextBatch

SpecFilter == InitFilter /\ [][NextFilter]_vars

----------------------------------------------------------------------------
(* Claims about the category map *)

Absent(cats, vocab) == {p \in 1..Len(cats) : ~Contains(values(vocab), cats[p])}

\* The map C1 describes: native id k -> i+1 for every item k of the vocabulary
\* whose name is at 0-based position i of the canonical list
NativeIdMap(cats, vocab) ==
    [k \in {x \in keys(vocab) : Contains(cats, lookup(vocab, x))} |->
        index(cats, lookup(vocab, k)) + 1]

\* C1: a constructed wrapper's category map is exactly {k -> i+1 : V[k] = C[i]}, so
\* its keys are native ids of the vocabulary and its values are in 1..len(C).
C1_MapOverNativeIds ==
    wstate = "ready" =>
        /\ categories_map = NativeIdMap(exdark_categories, id2label)
        /\ DOMAIN categories_map \subseteq keys(id2label)
        /\ \A k \in DOMAIN categories_map : categories_map[k] \in 1..Len(exdark_categories)

\* C2 as stated: with a canonical name absent from the vocabulary the construction
\* completes without error, the absent names have no key and the present names are mapped.
C2_AbsentNameOmitted ==
    (wstate # "new" /\ Absent(exdark_categories, id2label) # {}) =>
        /\ wstate = "ready"
        /\ \A p \in 1..Len(exdark_categories) :
              (p \in {categories_map[k] : k \in DOMAIN categories_map})
                  <=> p \notin Absent(exdark_categories, id2label)

\* C2 amended: the construction raises ValueError and leaves no category map exactly
\* when some canonical name is absent from the vocabulary, whatever other names are present.
C2_AbsentNameRaises ==
    wstate # "new" =>
        /\ (wstate = "ValueError") <=> (Absent(exdark_categories, id2label) # {})
        /\ wstate = "ValueError" => categories_map = EmptyDict

C2_Witness ==
    /\ wstate = "ValueError"
    /\ Absent(exdark_categories, id2label) # {}
    /\ Absent(exdark_categories, id2label) # 1..Len(exdark_categories)

----------------------------------------------------------------------------
(* Claims about the detection filter *)

AllLabels(batch) == UNION {{batch[i].labels[k] : k \in 1..Len(batch[i].labels)} :
                              i \in 1..Len(batch)}

\* C3: every label the filter returns is in 1..number of canonical categories.
C3_OutputLabelsInRange ==
    /\ calls >= 1 => AllLabels(filtered) \subseteq 1..Len(exdark_categories)
    /\ calls >= 2 => AllLabels(refiltered) \subseteq 1..Len(exdark_categories)

C3_Witness ==
    /\ calls >= 1
    /\ AllLabels(filtered) = 1..Len(exdark_categories)
    /\ Len(exdark_categories) = 2
    /\ AllLabels(detections) # AllLabels(filtered)

\* Positions of one image's entries whose label is a key of the map, in order
Kept(d, map) ==
    SelectSeq([k \in 1..Len(d.labels) |-> k], LAMBDA k : d.labels[k] \in DOMAIN map)

\* C4: each output record is the subsequence of the input entries whose label is a
\* key of the map, in order, with the label mapped and box and score unchanged.
C4_FilterIsMappedSubsequence ==
    calls >= 1 =>
        /\ Len(filtered) = Len(detections)
        /\ \A i \in 1..Len(detections) :
              LET d == detections[i]
                  kept == Kept(d, categories_map)
              IN  /\ filtered[i].boxes = [j \in 1..Len(kept) |-> d.boxes[kept[j]]]
                  /\ filtered[i].labels =
                        [j \in 1..Len(kept) |-> categories_map[d.labels[kept[j]]]]
                  /\ filtered[i].scores = [j \in 1..Len(kept) |-> d.scores[kept[j]]]
                  /\ Len(filtered[i].labels) <= Len(d.labels)

\* An image of two entries with different boxes, the first dropped, the second kept
C4_Witness ==
    /\ calls >= 1
    /\ \E i \in 1..Len(detections) :
          /\ Len(detections[i].labels) = 2
          /\ detections[i].boxes[1] # detections[i].boxes[2]
          /\ detections[i].labels[1] \notin DOMAIN categories_map
          /\ detections[i].labels[2] \in DOMAIN categories_map
          /\ filtered[i].boxes = <<detections[i].boxes[2]>>

\* C5: one output record per input image, at the image's position; an image that is
\* empty or has only unmapped detections gives an empty record.
C5_OneRecordPerImage ==
    calls >= 1 =>
        /\ Len(filtered) = Len(detections)
        /\ \A i \in 1..Len(detections) :
              /\ Len(filtered[i].labels) =
                    Cardinality({k \in 1..Len(detections[i].labels) :
                                    detections[i].labels[k] \in DOMAIN categories_map})
              /\ (\A k \in 1..Len(detections[i].labels) :
                     detections[i].labels[k] \notin DOMAIN categories_map)
                    => filtered[i] = EmptyRecord

\* Two images: the first has only an unmapped detection, the second a mapped one
C5_Witness ==
    /\ calls >= 1
    /\ Len(detections) = 2
    /\ Len(detections[1].labels) = 1
    /\ detections[1].labels[1] \notin DOMAIN categories_map
    /\ filtered[1] = EmptyRecord
    /\ Len(filtered[2].labels) = 1

\* C6 as stated: filtering the filtered records again changes nothing.
C6_Idempotent == calls = 2 => refiltered = filtered

FixedPoint(map, l) == l \in DOMAIN map /\ map[l] = l

\* C6 amended: the second pass returns the records of the first exactly when every
\* label of the first pass is a key of the map that maps to itself.
C6_IdempotentOnFixedPoints ==
    calls = 2 =>
        ((refiltered = filtered)
            <=> \A l \in AllLabels(filtered) : FixedPoint(categories_map, l))

C6_Witness ==
    /\ calls = 2
    /\ AllLabels(filtered) # {}
    /\ \A l \in AllLabels(filtered) : FixedPoint(categories_map, l)
    /\ refiltered = filtered

\* C11: the category map is built by the constructor and stays equal to what was
\* built through every forward, predict_step and _filter_detections call; a call
\* leaves the records it was given as they were.
C11_MapFixedAfterConstruction ==
    /\ wstate = "new" => categories_map = EmptyDict
    /\ wstate = "ready" =>
          /\ categories_map = built_map
          /\ categories_map =
                get_transformers_coco_to_exdark_mapping(exdark_categories, id2label).map
          /\ calls >= 1 => /\ detections = passed
                           /\ filtered = filter_detections(passed, built_map)

\* A second call was made on the result of a first call that found mapped labels
C11_Witness ==
    /\ wstate = "ready"
    /\ calls = 2
    /\ last_call = "_filter_detections"
    /\ built_map # EmptyDict
    /\ AllLabels(passed) \cap DOMAIN built_map # {}
    /\ AllLabels(filtered) # {}
    /\ categories_map = built_map
    /\ detections = passed

----------------------------------------------------------------------------
(* Inputs of the converter *)

ImageIds == {7, 8}

\* One annotated box: (x1, y1, x2, y2), label, area, crowd flag. The second entry's
\* area is not the area of its box.
PascalEntries ==
    { [box |-> <<10, 10, 50, 40>>, label |-> 1, area |-> 1200, iscrowd |-> 0],
      [box |-> <<0, 5, 20, 30>>, label |-> 12, area |-> 7, iscrowd |-> 1] }

\* What fills a list that is longer than boxes
Padding == [label |-> 5, area |-> 9, iscrowd |-> 0]

\* Length of labels, area and iscrowd relative to the length of boxes: equal, one
\* or all of them one shorter, one or all of them one longer, one longer and one shorter
ColumnDeltas ==
    { [labels |-> 0, area |-> 0, iscrowd |-> 0],
      [labels |-> -1, area |-> 0, iscrowd |-> 0],
      [labels |-> 0, area |-> -1, iscrowd |-> 0],
      [labels |-> 0, area |-> 0, iscrowd |-> -1],
      [labels |-> -1, area |-> -1, iscrowd |-> -1],
      [labels |-> 1, area |-> 0, iscrowd |-> 0],
      [labels |-> 1, area |-> 1, iscrowd |-> 1],
      [labels |-> 1, area |-> -1, iscrowd |-> 0] }

Column(vals, len, pad) == [j \in 1..len |-> IF j <= Len(vals) THEN vals[j] ELSE pad]

PascalRecord(id, entries, delta) ==
    LET n == Len(entries)
    IN  [image_id |-> id,
         boxes |-> [j \in 1..n |-> entries[j].box],
         labels |-> Column([j \in 1..n |-> entries[j].label], n + delta.labels,
                           Padding.label),
         area |-> Column([j \in 1..n |-> entries[j].area], n + delta.area,
                         Padding.area),
         iscrowd |-> Column([j \in 1..n |-> entries[j].iscrowd], n + delta.iscrowd,
                            Padding.iscrowd)]

\* Number of boxes per record, for every batch of at most MaxRecords records and
\* at most MaxBoxes boxes
PascalShapes ==
    UNION {{l \in [1..k -> 0..MaxBoxes] : Sum(l) <= MaxBoxes} : k \in 0..MaxRecords}

PascalBatch(lens, flat, ids, deltas) ==
    [i \in 1..Len(lens) |->
        PascalRecord(ids[i],
                     [j \in 1..lens[i] |-> flat[Sum(SubSeq(lens, 1, i - 1)) + j]],
                     deltas[i])]

WellFormed(ann) ==
    /\ Len(ann.labels) = Len(ann.boxes)
    /\ Len(ann.area) = Len(ann.boxes)
    /\ Len(ann.iscrowd) = Len(ann.boxes)

----------------------------------------------------------------------------
(* DetectionTransformer: actions *)

\* pascal_to_coco(pascal_annotations)
PascalToCoco ==
    /\ pstate = "idle"
    /\ coco_result' = pascal_to_coco(pascal_annotations)
    /\ pstate' = "done"
    /\ UNCHANGED pascal_annotations
    /\ UNCHANGED <<wrapperVars, dmVars, valVars>>

InitPascal ==
    /\ \E lens \in PascalShapes :
         \E flat \in [1..Sum(lens) -> PascalEntries] :
            \E ids \in [1..Len(lens) -> ImageIds] :
               \E deltas \in [1..Len(lens) -> ColumnDeltas] :
                  /\ \A i \in 1..Len(lens) :
                        /\ lens[i] + deltas[i].labels >= 0
                        /\ lens[i] + deltas[i].area >= 0
                        /\ lens[i] + deltas[i].iscrowd >= 0
                  /\ pascal_annotations = PascalBatch(lens, flat, ids, deltas)
    /\ coco_result = Returned(<<>>)
    /\ pstate = "idle"
    /\ WrapperAbsent
    /\ DataModuleAbsent
    /\ ValidationAbsent

NextPascal == PascalToCoco

SpecPascal == InitPascal /\ [][NextPascal]_vars

----------------------------------------------------------------------------
(* Claims about the converter *)

\* C7: well-formed records convert to one COCO record each, in order, with the image
\* id, and one annotation per box in box order: bbox = [x1, y1, x2 - x1, y2 - y1],
\* category id = label, crowd flag and area copied; (x, y, x + w, y + h) is the box.
C7_WellFormedConversion ==
    (pstate = "done" /\ \A i \in 1..Len(pascal_annotations) :
                            WellFormed(pascal_annotations[i])) =>
        /\ coco_result.raised = NoException
        /\ Len(coco_result.value) = Len(pascal_annotations)
        /\ \A i \in 1..Len(pascal_annotations) :
              LET ann == pascal_annotations[i]
                  coco == coco_result.value[i]
              IN  /\ coco.image_id = ann.image_id
                  /\ Len(coco.annotations) = Len(ann.boxes)
                  /\ \A j \in 1..Len(ann.boxes) :
                        LET a == coco.annotations[j]
                            b == ann.boxes[j]
                        IN  /\ a.image_id = ann.image_id
                            /\ a.bbox = <<b[1], b[2], b[3] - b[1], b[4] - b[2]>>
                            /\ a.category_id = ann.labels[j]
                            /\ a.iscrowd = ann.iscrowd[j]
                            /\ a.area = ann.area[j]
                            /\ <<a.bbox[1], a.bbox[2], a.bbox[1] + a.bbox[3],
                                 a.bbox[2] + a.bbox[4]>> = b

\* Two well-formed records with different image ids; an area that is not width * height
C7_Witness ==
    /\ pstate = "done"
    /\ Len(pascal_annotations) = 2
    /\ \A i \in 1..2 : WellFormed(pascal_annotations[i])
                          /\ Len(pascal_annotations[i].boxes) = 1
    /\ pascal_annotations[1].image_id # pascal_annotations[2].image_id
    /\ Len(coco_result.value) = 2
    /\ LET a == coco_result.value[1].annotations[1]
       IN  a.area # a.bbox[3] * a.bbox[4]
    /\ coco_result.value[2].annotations[1].bbox = <<10, 10, 40, 30>>

Mismatched(ann) == ~WellFormed(ann)

BoxesLonger(ann) ==
    \/ Len(ann.boxes) > Len(ann.labels)
    \/ Len(ann.boxes) > Len(ann.area)
    \/ Len(ann.boxes) > Len(ann.iscrowd)

\* C8 as stated: a batch with a record whose lists differ in length from boxes, in
\* either direction, fails and returns no COCO records.
C8_MismatchFails ==
    (pstate = "done" /\ \E i \in 1..Len(pascal_annotations) :
                            Mismatched(pascal_annotations[i])) =>
        /\ coco_result.raised # NoException
        /\ coco_result.value = <<>>

\* C8 amended: the call fails, returning nothing, exactly when some record's boxes
\* list is longer than its labels, area or iscrowd; otherwise every record is
\* converted from the first len(boxes) entries, longer lists included.
C8_BoxesLongerFails ==
    pstate = "done" =>
        IF \E i \in 1..Len(pascal_annotations) : BoxesLonger(pascal_annotations[i])
        THEN /\ coco_result.raised # NoException
             /\ coco_result.value = <<>>
        ELSE /\ coco_result.raised = NoException
             /\ Len(coco_result.value) = Len(pascal_annotations)
             /\ \A i \in 1..Len(pascal_annotations) :
                   /\ Len(coco_result.value[i].annotations)
                         = Len(pascal_annotations[i].boxes)
                   /\ \A j \in 1..Len(pascal_annotations[i].boxes) :
                         coco_result.value[i].annotations[j].category_id
                            = pascal_annotations[i].labels[j]

\* A record with one box and two labels, areas and crowd flags is converted
C8_Witness ==
    /\ pstate = "done"
    /\ \E i \in 1..Len(pascal_annotations) :
          /\ Len(pascal_annotations[i].boxes) = 1
          /\ Len(pascal_annotations[i].labels) = 2
          /\ coco_result.raised = NoException
          /\ Len(coco_result.value[i].annotations) = 1

LabelsShort(ann) == Len(ann.boxes) > Len(ann.labels)

\* C9 as stated: a record whose boxes list is longer than its labels list fails with
\* a MalformedAnnotation error that names the record's image id.
C9_MalformedAnnotationError ==
    (pstate = "done" /\ \E i \in 1..Len(pascal_annotations) :
                            LabelsShort(pascal_annotations[i])) =>
        /\ coco_result.raised.type = "MalformedAnnotation"
        /\ \E i \in 1..Len(pascal_annotations) :
              /\ LabelsShort(pascal_annotations[i])
              /\ pascal_annotations[i].image_id \in coco_result.raised.names

\* C9 amended: such a record fails with the generic IndexError of the tensor
\* indexing, whose message names no image id.
C9_GenericIndexError ==
    (pstate = "done" /\ \E i \in 1..Len(pascal_annotations) :
                            LabelsShort(pascal_annotations[i])) =>
        /\ coco_result.raised.type = "IndexError"
        /\ coco_result.raised.names = {}
        /\ coco_result.value = <<>>

\* A well-formed record followed by one with two boxes and one label
C9_Witness ==
    /\ pstate = "done"
    /\ Len(pascal_annotations) = 2
    /\ WellFormed(pascal_annotations[1])
    /\ Len(pascal_annotations[2].boxes) = 2
    /\ Len(pascal_annotations[2].labels) = 1
    /\ coco_result.raised.type = "IndexError"

----------------------------------------------------------------------------
(* ExDarkDataModule *)

BatchSizes == {2, 16}
ImgDirs == {"dirA", "dirB"}
Stages == {"fit", "validate", "test", "predict"}

\* ExDarkDataset(img_dir, RESIZE_TO, RESIZE_TO, transforms)
ExDarkDataset(img_dir, transforms) == [img_dir |-> img_dir, transforms |-> transforms]

NoDataset == ExDarkDataset(None, None)
NoLoader == [dataset |-> NoDataset, batch_size |-> 0]

\* DataLoader(dataset, batch_size=..., collate_fn=self._collate_fn)
DataLoader(dataset, batch_size) == [dataset |-> dataset, batch_size |-> batch_size]

\* self.<name> = value
SetAttr(obj, name, value) ==
    [obj EXCEPT !.attrs = [a \in (DOMAIN obj.attrs) \cup {name} |->
                              IF a = name THEN value ELSE obj.attrs[a]]]

HasAttr(obj, name) == name \in DOMAIN obj.attrs

\* The outcome of a dataloader method: the loader returned or the exception raised
Loaded(loader) == [raised |-> None, loader |-> loader]
Failed(type) == [raised |-> type, loader |-> NoLoader]

\* DataLoader(self.<name>, ...): reading a missing attribute raises AttributeError
LoaderOver(obj, name) ==
    IF HasAttr(obj, name)
    THEN Loaded(DataLoader(obj.attrs[name], obj.batch_size))
    ELSE Failed("AttributeError")

\* setup(stage)
setup(obj, stage) ==
    LET fit == IF stage = "fit"
               THEN SetAttr(SetAttr(obj, "train_dataset",
                                    ExDarkDataset("TRAIN_DIR", "train_transforms")),
                            "val_dataset", ExDarkDataset("VALID_DIR", "eval_transforms"))
               ELSE obj
    IN  IF stage = "test"
        THEN SetAttr(fit, "test_dataset", ExDarkDataset("TEST_DIR", "eval_transforms"))
        ELSE fit

\* setup_predict_data(img_dir)
setup_predict_data(obj, img_dir) ==
    SetAttr(obj, "predict_datset", ExDarkDataset(img_dir, "predict_transforms"))

\* Mutant: the AttributeError is not caught
predict_dataloader_uncaught(obj) == LoaderOver(obj, "predict_datset")

\* predict_dataloader(): the AttributeError of the try block becomes PredictionError
predict_dataloader(obj) ==
    LET try == LoaderOver(obj, "predict_datset")
    IN  IF try.raised = "AttributeError" THEN Failed("PredictionError") ELSE try

train_dataloader(obj) == LoaderOver(obj, "train_dataset")
val_dataloader(obj) == LoaderOver(obj, "val_dataset")
test_dataloader(obj) == LoaderOver(obj, "test_dataset")

Outcome(call, r) == [call |-> call, raised |-> r.raised, loader |-> r.loader]

Setup ==
    /\ \E stage \in Stages :
          /\ dm' = setup(dm, stage)
          /\ dm_history' = dm_history \cup {<<"setup", stage>>}
    /\ dm_result' = Outcome("setup", Loaded(NoLoader))
    /\ UNCHANGED <<wrapperVars, pascalVars, valVars>>

SetupPredictData ==
    /\ \E img_dir \in ImgDirs :
          /\ dm' = setup_predict_data(dm, img_dir)
          /\ dm_history' = dm_history \cup {<<"setup_predict_data", img_dir>>}
    /\ dm_result' = Outcome("setup_predict_data", Loaded(NoLoader))
    /\ UNCHANGED <<wrapperVars, pascalVars, valVars>>

PredictDataloader ==
    /\ dm_result' = Outcome("predict_dataloader", predict_dataloader(dm))
    /\ UNCHANGED <<dm, dm_history, wrapperVars, pascalVars, valVars>>

TrainDataloader ==
    /\ dm_result' = Outcome("train_dataloader", train_dataloader(dm))
    /\ UNCHANGED <<dm, dm_history, wrapperVars, pascalVars, valVars>>

ValDataloader ==
    /\ dm_result' = Outcome("val_dataloader", val_dataloader(dm))
    /\ UNCHANGED <<dm, dm_history, wrapperVars, pascalVars, valVars>>

TestDataloader ==
    /\ dm_result' = Outcome("test_dataloader", test_dataloader(dm))
    /\ UNCHANGED <<dm, dm_history, wrapperVars, pascalVars, valVars>>

\* ExDarkDataModule(batch_size): no dataset attribute exists yet
InitDataModule ==
    /\ \E b \in BatchSizes : dm = [batch_size |-> b, attrs |-> <<>>]
    /\ dm_history = {}
    /\ dm_result = Outcome("__init__", Loaded(NoLoader))
    /\ WrapperAbsent
    /\ PascalAbsent
    /\ ValidationAbsent

NextDataModule ==
    \/ Setup
    \/ SetupPredictData
    \/ PredictDataloader
    \/ TrainDataloader
    \/ ValDataloader
    \/ TestDataloader

SpecDataModule == InitDataModule /\ [][NextDataModule]_vars

----------------------------------------------------------------------------
(* Claims about the data module *)

PredictSetUp == \E img_dir \in ImgDirs : <<"setup_predict_data", img_dir>> \in dm_history

\* C10: after any setup and setup_predict_data calls, predict_dataloader raises
\* PredictionError if setup_predict_data was never called, and returns a loader over
\* the prediction dataset if it was; setup never enables prediction.
C10_PredictionErrorUntilSetUp ==
    dm_result.call = "predict_dataloader" =>
        IF PredictSetUp
        THEN /\ dm_result.raised = None
             /\ dm_result.loader.batch_size = dm.batch_size
             /\ dm_result.loader.dataset = dm.attrs["predict_datset"]
             /\ dm_result.loader.dataset.transforms = "predict_transforms"
             /\ <<"setup_predict_data", dm_result.loader.dataset.img_dir>> \in dm_history
        ELSE /\ dm_result.raised = "PredictionError"
             /\ dm_result.loader = NoLoader

\* setup was called with every stage, setup_predict_data never: PredictionError
C10_Witness ==
    /\ dm_result.call = "predict_dataloader"
    /\ \A stage \in Stages : <<"setup", stage>> \in dm_history
    /\ ~PredictSetUp
    /\ dm_result.raised = "PredictionError"

----------------------------------------------------------------------------
(* DetectionTransformer and Retina: validation *)

Modules == {"DetectionTransformer", "Retina"}

\* The ground truth the dataset holds for an image: a well-formed Pascal record
Target(image) ==
    PascalRecord(image,
                 IF image = 7
                 THEN <<[box |-> <<10, 10, 50, 40>>, label |-> 1, area |-> 1200,
                         iscrowd |-> 0]>>
                 ELSE <<>>,
                 [labels |-> 0, area |-> 0, iscrowd |-> 0])

\* What the network may detect in one image
ValDetections ==
    { EmptyRecord,
      [boxes |-> <<<<10, 10, 50, 40>>>>, labels |-> <<1>>, scores |-> <<90>>] }

\* batch = (images, targets): collate_fn pairs every image with its ground truth
Targets(images) == [i \in 1..Len(images) |-> Target(images[i])]

\* self.model(...): one output row per image of the batch, in batch order
ModelOutput(images, rows) ==
    [i \in 1..Len(images) |-> [image |-> images[i], dets |-> rows[i]]]

\* DetectionTransformer.forward(images, targets): the targets are converted by
\* pascal_to_coco for the image processor, then the model runs
DetectionTransformer_forward(images, targets, rows) ==
    LET annotations == pascal_to_coco(targets)
    IN  IF annotations.raised # NoException
        THEN [raised |-> annotations.raised, output |-> <<>>]
        ELSE [raised |-> NoException, output |-> ModelOutput(images, rows)]

\* image_processor.post_process_object_detection(outputs, target_sizes=...): one
\* record per output row; target_sizes has one size per image
post_process_object_detection(output, images) ==
    [i \in 1..Min(Len(output), Len(images)) |->
        [image |-> output[i].image,
         boxes |-> output[i].dets.boxes,
         labels |-> output[i].dets.labels,
         scores |-> output[i].dets.scores]]

\* DetectionTransformer.validation_step: the metric.update calls it makes
DetectionTransformer_validation_step(images, targets, rows) ==
    LET outputs == DetectionTransformer_forward(images, targets, rows)
        preds == post_process_object_detection(outputs.output, images)
    IN  IF outputs.raised # NoException
        THEN [raised |-> outputs.raised, updates |-> <<>>]
        ELSE [raised |-> NoException,
              updates |-> <<[preds |-> preds, target |-> targets]>>]

\* Retina.validation_step: preds = self.model(images); self.metric.update(preds, targets)
Retina_validation_step(images, targets, rows) ==
    LET preds == post_process_object_detection(ModelOutput(images, rows), images)
    IN  [raised |-> NoException,
         updates |-> <<[preds |-> preds, target |-> targets]>>]

\* MeanAveragePrecision.update(preds, target): the pairs are appended image by image
metric_update(acc, u) ==
    acc \o [i \in 1..Min(Len(u.preds), Len(u.target)) |->
               [pred |-> u.preds[i], target |-> u.target[i]]]

RECURSIVE UpdateAll(_, _)
UpdateAll(acc, updates) ==
    IF Len(updates) = 0 THEN acc
    ELSE UpdateAll(metric_update(acc, updates[1]), Tail(updates))

\* MeanAveragePrecision.compute(): the mAP of the accumulated pairs, kept here as
\* the pairs it is computed from
metric_compute(acc) == [of |-> acc]

\* Mutant: the accumulator is not reset
on_validation_epoch_end_without_reset(acc) ==
    [val_mAP |-> metric_compute(acc), metric |-> acc]

\* on_validation_epoch_end: compute, log val_mAP, reset
on_validation_epoch_end(acc) ==
    [val_mAP |-> metric_compute(acc), metric |-> <<>>]

\* The batches of images the validation loader may yield next
ValBatches ==
    UNION {[1..n -> ImageIds] : n \in 1..(MaxValImages - Len(seen))}

Step(images, r) ==
    /\ metric' = UpdateAll(metric, r.updates)
    /\ update_calls' = update_calls + Len(r.updates)
    /\ last_update' = IF Len(r.updates) = 0 THEN last_update
                      ELSE r.updates[Len(r.updates)]
    /\ steps' = steps + 1
    /\ seen' = seen \o images
    /\ UNCHANGED <<module, val_mAP, epoch, logged_for>>
    /\ UNCHANGED <<wrapperVars, pascalVars, dmVars>>

DetectionTransformerValidationStep ==
    /\ module = "DetectionTransformer"
    /\ epoch < MaxEpochs
    /\ \E images \in ValBatches :
          \E rows \in [1..Len(images) -> ValDetections] :
             Step(images,
                  DetectionTransformer_validation_step(images, Targets(images), rows))

RetinaValidationStep ==
    /\ module = "Retina"
    /\ epoch < MaxEpochs
    /\ \E images \in ValBatches :
          \E rows \in [1..Len(images) -> ValDetections] :
             Step(images, Retina_validation_step(images, Targets(images), rows))

\* on_validation_epoch_end of either module
OnValidationEpochEnd ==
    /\ epoch < MaxEpochs
    /\ LET end == on_validation_epoch_end(metric)
       IN  /\ val_mAP' = end.val_mAP
           /\ metric' = end.metric
    /\ logged_for' = seen
    /\ seen' = <<>>
    /\ steps' = 0
    /\ update_calls' = 0
    /\ last_update' = [preds |-> <<>>, target |-> <<>>]
    /\ epoch' = epoch + 1
    /\ UNCHANGED module
    /\ UNCHANGED <<wrapperVars, pascalVars, dmVars>>

\* A module as constructed: self.metric = MeanAveragePrecision()
InitValidation ==
    /\ module \in Modules
    /\ metric = <<>>
    /\ val_mAP = metric_compute(<<>>)
    /\ last_update = [preds |-> <<>>, target |-> <<>>]
    /\ update_calls = 0
    /\ steps = 0
    /\ epoch = 0
    /\ seen = <<>>
    /\ logged_for = <<>>
    /\ WrapperAbsent
    /\ PascalAbsent
    /\ DataModuleAbsent

NextValidation ==
    \/ DetectionTransformerValidationStep
    \/ RetinaValidationStep
    \/ OnValidationEpochEnd

SpecValidation == InitValidation /\ [][NextValidation]_vars

----------------------------------------------------------------------------
(* Claims about validation *)

\* The pairs are those of the images, in order: a prediction and the ground truth
\* of each image
PairsOf(pairs, images) ==
    /\ Len(pairs) = Len(images)
    /\ \A k \in 1..Len(images) :
          /\ pairs[k].pred.image = images[k]
          /\ pairs[k].target = Target(images[k])

\* C12: every validation_step makes one metric.update call, with as many predictions
\* as ground truths, one per image of the batch in batch order; the epoch end logs
\* the mAP of exactly the epoch's batches and leaves the accumulator empty.
C12_AlignedUpdatesAndReset ==
    /\ update_calls = steps
    /\ steps >= 1 =>
          LET n == Len(last_update.preds)
          IN  /\ n = Len(last_update.target)
              /\ n >= 1 /\ n <= Len(seen)
              /\ \A i \in 1..n :
                    /\ last_update.preds[i].image = seen[Len(seen) - n + i]
                    /\ last_update.target[i].image_id = seen[Len(seen) - n + i]
    /\ PairsOf(metric, seen)
    /\ steps = 0 => metric = <<>>
    /\ epoch >= 1 => PairsOf(val_mAP.of, logged_for)

\* The first epoch saw two different images; the second has had one batch so far
C12_Witness ==
    /\ epoch = 1
    /\ Len(logged_for) = 2
    /\ logged_for[1] # logged_for[2]
    /\ Len(val_mAP.of) = 2
    /\ steps = 1
    /\ Len(metric) = 1
    /\ Len(last_update.preds) = 1

====
